---- MODULE Spec2Model ----
(***************************************************************************)
(* A model of the Focus concept (class Focus of focus.ts): per user, one   *)
(* current task and one optional AI generated first-step suggestion.       *)
(*                                                                         *)
(* Text is modelled by TLA+ strings.  A character is a string of length 1  *)
(* and the string operations of the code (trim, split, toLowerCase,        *)
(* startsWith, includes, indexOf, substring, the regular expression match  *)
(* and JSON.parse) are operators that compute what the JavaScript          *)
(* operations compute on texts over the characters used below (ASCII       *)
(* letters, digits, punctuation, space, tab, newline, carriage return).    *)
(***************************************************************************)
EXTENDS Integers, Sequences, FiniteSets, TLC

(***************************************************************************)
(* Bounds of the model.                                                    *)
(***************************************************************************)
\* number of generateFirstStep calls that can be suspended at the same time
MaxCalls == 2
Calls == 1..MaxCalls

\* user ids: the user of focus-tests.ts and a second one.  The class keeps
\* nothing that relates two users, so two stand for any number of them.
Users == {"user123", "user456"}

\* two tasks of focus-tests.ts; the class never looks into a task outside the
\* prompt, so two stand for "the task" and "another task"
Tasks ==
    { [description |-> "Get organized for the week"],
      [description |-> "Refactor the user authentication module to improve performance"] }

(***************************************************************************)
(* Characters and strings.                                                 *)
(***************************************************************************)
\* the character at 1-based position i, "" outside the string
At(s, i) == IF i >= 1 /\ i <= Len(s) THEN SubSeq(s, i, i) ELSE ""

UpperChars == "ABCDEFGHIJKLMNOPQRSTUVWXYZ"
LowerChars == "abcdefghijklmnopqrstuvwxyz"
Digits == {"0", "1", "2", "3", "4", "5", "6", "7", "8", "9"}

\* the white space String.prototype.trim removes
TrimSpace == {" ", "\t", "\n", "\r", "\f"}

LowerChar(c) ==
    IF \E i \in 1..26 : At(UpperChars, i) = c
    THEN At(LowerChars, CHOOSE i \in 1..26 : At(UpperChars, i) = c)
    ELSE c

\* String.prototype.toLowerCase, by halves
RECURSIVE toLowerCase(_)
toLowerCase(s) ==
    IF Len(s) <= 1 THEN LowerChar(s)
    ELSE toLowerCase(SubSeq(s, 1, Len(s) \div 2))
         \o toLowerCase(SubSeq(s, Len(s) \div 2 + 1, Len(s)))

\* String.prototype.trim
trim(s) ==
    LET keep == {i \in 1..Len(s) : At(s, i) \notin TrimSpace}
    IN  IF keep = {} THEN ""
        ELSE LET lo == CHOOSE i \in keep : \A j \in keep : i <= j
                 hi == CHOOSE i \in keep : \A j \in keep : j <= i
             IN  SubSeq(s, lo, hi)

\* String.prototype.indexOf for a one-character needle: 0-based, -1 if absent
indexOf(s, c) ==
    LET hits == {i \in 1..Len(s) : At(s, i) = c}
    IN  IF hits = {} THEN -1
        ELSE (CHOOSE i \in hits : \A j \in hits : i <= j) - 1

\* String.prototype.substring(start) with a 0-based start
substring(s, start) == SubSeq(s, start + 1, Len(s))

startsWith(s, p) == Len(p) <= Len(s) /\ SubSeq(s, 1, Len(p)) = p

includes(s, p) ==
    \E i \in 0..(Len(s) - Len(p)) : SubSeq(s, i + 1, i + Len(p)) = p

\* text.split(' ')[0]: the text before the first space character
splitFirst(s) ==
    LET k == indexOf(s, " ")
    IN  IF k = -1 THEN s ELSE SubSeq(s, 1, k)

(***************************************************************************)
(* The validators.  Each operator is TRUE when the method returns and      *)
(* FALSE when it throws.                                                   *)
(***************************************************************************)
ACTION_VERBS ==
    { "write", "create", "draft", "outline", "list", "sketch", "draw", "jot", "type",
      "find", "search", "look up", "read", "review", "identify", "gather", "watch",
      "open", "set up", "organize", "schedule", "book", "add", "download", "install",
      "email", "message", "call", "ask", "send",
      "take out", "move", "put", "go to", "get",
      "run", "test", "debug", "check" }

validateIsActionable_WholeWord(text) ==
    LET firstWord == toLowerCase(splitFirst(trim(text)))
    IN  firstWord \in ACTION_VERBS

validateIsActionable(text) ==
    LET firstWord == toLowerCase(splitFirst(trim(text)))
    IN  \E verb \in ACTION_VERBS : startsWith(firstWord, verb)

RED_FLAG_PHRASES ==
    { "complete the", "finish the", "finalize the", "implement the", "build the",
      "design the", "write the entire", "write the full", "create the whole",
      "the entire module", "the whole chapter", "the full draft", "the first draft",
      "the final version", "the complete list",
      "all of the", "every part of", "the rest of the", "organize all",
      "clean the entire" }

validateIsShort_CaseSensitive(text) ==
    ~ \E word \in RED_FLAG_PHRASES : includes(text, word)

validateIsShort(text) ==
    LET lowerText == toLowerCase(text)
    IN  ~ \E word \in RED_FLAG_PHRASES : includes(lowerText, word)

terminators == {".", "?", "!"}

validateIsSingleSentence_LastTerminator(text) ==
    LET indices == {i \in 0..(Len(text) - 1) : At(text, i + 1) \in terminators}
    IN  IF indices = {} THEN TRUE
        ELSE LET lastTerminatorIndex ==
                     CHOOSE i \in indices : \A j \in indices : j <= i
                 remainingText == trim(substring(text, lastTerminatorIndex + 1))
             IN  Len(remainingText) = 0

validateIsSingleSentence(text) ==
    LET indices == {indexOf(text, t) : t \in terminators} \ {-1}
    IN  IF indices = {} THEN TRUE
        ELSE LET firstTerminatorIndex ==
                     CHOOSE i \in indices : \A j \in indices : i <= j
                 remainingText == trim(substring(text, firstTerminatorIndex + 1))
             IN  Len(remainingText) = 0

(***************************************************************************)
(* JSON.parse: a recursive-descent parser of the JSON grammar (objects,    *)
(* arrays, strings with the escapes \" \\ \/ \n \t \r \f, numbers and the  *)
(* literals true, false, null).  A parse result is [ok |-> FALSE] for a    *)
(* SyntaxError, else [ok |-> TRUE, next |-> position after the value,      *)
(* val |-> the value].  A value is a record with a "type" field as typeof  *)
(* distinguishes them; an object keeps its members in source order.        *)
(***************************************************************************)
JsonSpace == {" ", "\t", "\n", "\r"}
ControlChars == {"\t", "\n", "\r", "\f"}
EscapeChars == {"\"", "\\", "/", "n", "t", "r", "f"}

Unescape(e) ==
    CASE e = "n" -> "\n"
      [] e = "t" -> "\t"
      [] e = "r" -> "\r"
      [] e = "f" -> "\f"
      [] OTHER -> e

ParseFail == [ok |-> FALSE]

\* the first position from i on that holds no character of the set
skipChars(s, i, set) ==
    CHOOSE j \in i..(Len(s) + 1) :
        /\ At(s, j) \notin set
        /\ \A k \in i..(j - 1) : At(s, k) \in set

skipSpace(s, i) == skipChars(s, i, JsonSpace)
skipDigits(s, i) == skipChars(s, i, Digits)

\* the text of a string literal's body: each escape replaced by its character
RECURSIVE unescape(_)
unescape(body) ==
    LET k == indexOf(body, "\\")
    IN  IF k = -1 THEN body
        ELSE SubSeq(body, 1, k) \o Unescape(At(body, k + 2))
             \o unescape(SubSeq(body, k + 3, Len(body)))

\* position k of s, in a string literal whose body starts at i, holds a
\* backslash that starts an escape: an odd one of its run of backslashes
startsEscape(s, i, k) ==
    /\ At(s, k) = "\\"
    /\ \E b \in i..k :
          /\ \A m \in b..k : At(s, m) = "\\"
          /\ (b = i \/ At(s, b - 1) # "\\")
          /\ (k - b) % 2 = 0

\* the rest of a string literal whose opening quote is before position i:
\* it ends at the first quote that no backslash escapes
scanString(s, i) ==
    LET isClose(j) == At(s, j) = "\"" /\ ~startsEscape(s, i, j - 1)
        closes == {j \in i..Len(s) : isClose(j)}
        close == CHOOSE j \in closes : \A k \in closes : j <= k
    IN  IF closes = {} THEN ParseFail
        ELSE IF \E k \in i..(close - 1) :
                    \/ At(s, k) \in ControlChars
                    \/ startsEscape(s, i, k) /\ At(s, k + 1) \notin EscapeChars
        THEN ParseFail
        ELSE [ok |-> TRUE, next |-> close + 1,
              val |-> [type |-> "string", str |-> unescape(SubSeq(s, i, close - 1))]]

parseNumber(s, i) ==
    LET int == IF At(s, i) = "-" THEN i + 1 ELSE i
        frac == IF At(s, int) = "0" THEN int + 1 ELSE skipDigits(s, int)
        exp == IF At(s, frac) = "." THEN skipDigits(s, frac + 1) ELSE frac
        sign == IF At(s, exp + 1) \in {"+", "-"} THEN exp + 2 ELSE exp + 1
        end == IF At(s, exp) \in {"e", "E"} THEN skipDigits(s, sign) ELSE exp
    IN  IF \/ At(s, int) \notin Digits
           \/ (At(s, frac) = "." /\ At(s, frac + 1) \notin Digits)
           \/ (At(s, exp) \in {"e", "E"} /\ At(s, sign) \notin Digits)
        THEN ParseFail
        ELSE [ok |-> TRUE, next |-> end, val |-> [type |-> "number"]]

parseLiteral(s, i) ==
    IF SubSeq(s, i, Len(s)) # "" /\ startsWith(SubSeq(s, i, Len(s)), "true")
    THEN [ok |-> TRUE, next |-> i + 4, val |-> [type |-> "boolean"]]
    ELSE IF startsWith(SubSeq(s, i, Len(s)), "false")
    THEN [ok |-> TRUE, next |-> i + 5, val |-> [type |-> "boolean"]]
    ELSE IF startsWith(SubSeq(s, i, Len(s)), "null")
    THEN [ok |-> TRUE, next |-> i + 4, val |-> [type |-> "null"]]
    ELSE ParseFail

RECURSIVE parseValue(_, _)
RECURSIVE parseMembers(_, _, _)
RECURSIVE parseElements(_, _)

\* a value that starts at position i
parseValue(s, i) ==
    LET c == At(s, i)
    IN  IF c = "{" THEN
            IF At(s, skipSpace(s, i + 1)) = "}"
            THEN [ok |-> TRUE, next |-> skipSpace(s, i + 1) + 1,
                  val |-> [type |-> "object", members |-> <<>>]]
            ELSE parseMembers(s, skipSpace(s, i + 1), <<>>)
        ELSE IF c = "[" THEN
            IF At(s, skipSpace(s, i + 1)) = "]"
            THEN [ok |-> TRUE, next |-> skipSpace(s, i + 1) + 1,
                  val |-> [type |-> "array"]]
            ELSE parseElements(s, skipSpace(s, i + 1))
        ELSE IF c = "\"" THEN scanString(s, i + 1)
        ELSE IF c \in Digits \cup {"-"} THEN parseNumber(s, i)
        ELSE IF c = "" THEN ParseFail
        ELSE parseLiteral(s, i)

\* the members of an object from the key that starts at position i
parseMembers(s, i, acc) ==
    LET key == scanString(s, i + 1)
        colon == skipSpace(s, key.next)
        value == parseValue(s, skipSpace(s, colon + 1))
        sep == skipSpace(s, value.next)
        members == Append(acc, <<key.val.str, value.val>>)
    IN  IF At(s, i) # "\"" THEN ParseFail
        ELSE IF ~key.ok THEN ParseFail
        ELSE IF At(s, colon) # ":" THEN ParseFail
        ELSE IF ~value.ok THEN ParseFail
        ELSE IF At(s, sep) = "," THEN parseMembers(s, skipSpace(s, sep + 1), members)
        ELSE IF At(s, sep) = "}" THEN
            [ok |-> TRUE, next |-> sep + 1,
             val |-> [type |-> "object", members |-> members]]
        ELSE ParseFail

\* the elements of an array from the element that starts at position i
parseElements(s, i) ==
    LET value == parseValue(s, i)
        sep == skipSpace(s, value.next)
    IN  IF ~value.ok THEN ParseFail
        ELSE IF At(s, sep) = "," THEN parseElements(s, skipSpace(s, sep + 1))
        ELSE IF At(s, sep) = "]" THEN
            [ok |-> TRUE, next |-> sep + 1, val |-> [type |-> "array"]]
        ELSE ParseFail

JSON_parse(text) ==
    LET value == parseValue(text, skipSpace(text, 1))
    IN  IF value.ok /\ skipSpace(text, value.next) = Len(text) + 1
        THEN value
        ELSE ParseFail

\* typeof obj[name] = 'string', and then the string: the last member of that
\* name is the property's value
hasStringProperty(obj, name) ==
    /\ obj.type = "object"
    /\ \E i \in 1..Len(obj.members) :
          /\ obj.members[i][1] = name
          /\ \A j \in (i + 1)..Len(obj.members) : obj.members[j][1] # name
          /\ obj.members[i][2].type = "string"

getStringProperty(obj, name) ==
    LET i == CHOOSE i \in 1..Len(obj.members) :
                 /\ obj.members[i][1] = name
                 /\ \A j \in (i + 1)..Len(obj.members) : obj.members[j][1] # name
    IN  obj.members[i][2].str

(***************************************************************************)
(* responseText.match(/\{[\s\S]*\}/): the span from the first "{" to the   *)
(* last "}" after it; jsonMatch is "" (no string starting with "{") when   *)
(* the match is null.                                                      *)
(***************************************************************************)
lastIndexOf(s, c) ==
    LET hits == {i \in 1..Len(s) : At(s, i) = c}
    IN  IF hits = {} THEN -1
        ELSE (CHOOSE i \in hits : \A j \in hits : j <= i) - 1

jsonMatch_ToFirstClosingBrace(responseText) ==
    LET open == indexOf(responseText, "{")
        close == indexOf(responseText, "}")
    IN  IF open = -1 \/ close < open THEN ""
        ELSE SubSeq(responseText, open + 1, close + 1)

jsonMatch(responseText) ==
    LET open == indexOf(responseText, "{")
        close == lastIndexOf(responseText, "}")
    IN  IF open = -1 \/ close < open THEN ""
        ELSE SubSeq(responseText, open + 1, close + 1)

(***************************************************************************)
(* Errors.  An error is its constructor name and its message.              *)
(***************************************************************************)
Error(message) == [name |-> "Error", message |-> message]
\* the text of a SyntaxError of JSON.parse is the engine's
SyntaxError == [name |-> "SyntaxError", message |-> "Unexpected token in JSON"]
NoError == [name |-> "", message |-> ""]

NoCurrentTaskError(user) ==
    Error("Cannot generate first step for user " \o user \o ": no current task is set.")
NoJsonError == Error("No valid JSON object found in the LLM response.")
InvalidFormatError_AsValidation ==
    Error("Validation Error: JSON must have a \"suggestion\" field of type string.")
InvalidFormatError ==
    Error("Invalid response format: JSON must have a \"suggestion\" field of type string.")
NotActionableError(text) ==
    Error("Validation Error: Suggestion is not an actionable command. Got: \""
          \o text \o "\"")
TooLargeError_LowerText(text) ==
    Error("Validation Error: Suggestion implies too large a scope. Got: \""
          \o toLowerCase(text) \o "\"")
TooLargeError(text) ==
    Error("Validation Error: Suggestion implies too large a scope. Got: \""
          \o text \o "\"")
NotSingleSentenceError(text) ==
    Error("Validation Error: Suggestion must be a single sentence. Got: \""
          \o text \o "\"")

(***************************************************************************)
(* parseAndStoreSuggestion up to the store: the error it throws, or the    *)
(* suggestion text it stores.                                              *)
(***************************************************************************)
Thrown(error) == [threw |-> TRUE, error |-> error, suggestionText |-> ""]
Accepted(text) == [threw |-> FALSE, error |-> NoError, suggestionText |-> text]

validateAll_SkipsSingleSentence(suggestionText) ==
    IF ~validateIsActionable(suggestionText)
    THEN Thrown(NotActionableError(suggestionText))
    ELSE IF ~validateIsShort(suggestionText)
    THEN Thrown(TooLargeError(suggestionText))
    ELSE Accepted(suggestionText)

\* the three validator calls, in the order of the code
validateAll(suggestionText) ==
    IF ~validateIsActionable(suggestionText)
    THEN Thrown(NotActionableError(suggestionText))
    ELSE IF ~validateIsShort(suggestionText)
    THEN Thrown(TooLargeError(suggestionText))
    ELSE IF ~validateIsSingleSentence(suggestionText)
    THEN Thrown(NotSingleSentenceError(suggestionText))
    ELSE Accepted(suggestionText)

parseAndValidate(responseText) ==
    LET match == jsonMatch(responseText)
        response == JSON_parse(match)
    IN  IF match = "" THEN Thrown(NoJsonError)
        ELSE IF ~response.ok THEN Thrown(SyntaxError)
        ELSE IF ~hasStringProperty(response.val, "suggestion")
        THEN Thrown(InvalidFormatError)
        ELSE validateAll(getStringProperty(response.val, "suggestion"))

(***************************************************************************)
(* The prompt: the template with the task description in its TASK line.    *)
(***************************************************************************)
createFirstStepPrompt(task) ==
    "You are a productivity AI. Your only goal is to defeat procrastination. "
    \o "TASK: \"" \o task.description \o "\" "
    \o "JSON OUTPUT: { \"suggestion\": \"The short, actionable command.\" }"

(***************************************************************************)
(* What the model can answer: the texts llm.executeLLM resolves with and   *)
(* the errors it rejects with.                                             *)
(***************************************************************************)
Responses ==
    { "{\"suggestion\": \"List three main tasks you need to accomplish this week.\"}",
      "Sure!\n~~~json\n{\"suggestion\": \"Write one sentence.\"}\n~~~",
      "{\"suggestion\": \"Think about what you want to accomplish.\"}",
      "{\"suggestion\": \"Finish the entire module.\"}",
      "{\"suggestion\": \"Open a document. Then write a title.\"}",
      "I cannot help with that." }

(***************************************************************************)
(* Candidate suggestion texts for the validators: first words that are,    *)
(* start with, contain or are not listed verbs, after leading white space  *)
(* and before a space, a tab or nothing; texts with sentence terminators   *)
(* in every position; texts that fail several validators at once.          *)
(***************************************************************************)
FirstWords ==
    { "Open", "oPEN", "Opening", "Reopen", "Think", "You should write", "Asks",
      "Set up", "Look up", "Go to", "Take out", "Set", "Go", "-List" }

ActionableTexts ==
    { lead \o word \o rest :
        lead \in {"", " \t"}, word \in FirstWords,
        rest \in {"", " the document.", "\tthe document."} }

SentenceTexts ==
    { start \o tail :
        start \in {"", "Open a document", "Think"},
        tail \in { "", ".", ". ", ".\n\t", ". Then write a title.", "?!", "...",
                   "! ok", "? .", " v1.2 now", ".x" } }

\* plain texts (no quote, backslash or control character) that fail none,
\* one or several validators
OrderTexts ==
    { "", "   ", "Open the document.", "Think about your options.",
      "You should write an outline.", "Set up your desk.",
      "Write the entire essay.", "  Write THE Entire essay.  ",
      "Think about the entire module.",
      "Think. Then stop.", "Write the entire essay. Then rest.",
      "Think about the entire module. Then stop!", "Draft a title? Yes" }

\* texts with a red-flag phrase in capitals, inside longer words, across
\* a sentence end, broken by a second space, and without one
ScopeTexts ==
    { "Finish the entire module.", "List three tasks for this week.",
      "Refinish the table.", "Call of the wild.", "Recall OF THE week's tasks.",
      "Write The Full Draft", "Write. The full draft.", "Finish  the module.",
      "List all of them.", "Organize allergy notes.", "finish the",
      "Build a list; then Complete\tthe form.", "Read the final versions." }

Candidates == ActionableTexts \cup SentenceTexts \cup OrderTexts \cup ScopeTexts

(***************************************************************************)
(* Responses for the extraction: a core between a prefix and a suffix of   *)
(* prose and fences that hold no brace; and each plain candidate as the    *)
(* suggestion of a JSON object.                                            *)
(***************************************************************************)
\* objects with a string suggestion
SuggestionCores ==
    { "{\"suggestion\": \"Open the file.\"}",
      "{ \"suggestion\" : \"Open the file.\" , \"confidence\": 0.9 }",
      "{\"meta\": {\"tags\": [1, {}]}, \"suggestion\": \"Open the file.\"}",
      "{\"suggestion\": \"Open the \\\"file\\\" {now}.\"}" }

\* well-formed objects without a string suggestion
NoSuggestionCores ==
    { "{\"suggestion\": 5}",
      "{\"suggestion\": null}",
      "{\"suggestion\": [\"Open the file.\"]}",
      "{\"Suggestion\": \"Open the file.\"}",
      "{}" }

\* spans that are not JSON
MalformedCores ==
    { "{suggestion: \"Open the file.\"}",
      "{'suggestion': 'Open the file.'}",
      "{\"suggestion\": \"Open the file.\",}",
      "{\"suggestion\": \"Open the file.\"} {\"suggestion\": \"Write it.\"}",
      "{\"suggestion\": \"Open the file.\"} and so on }" }

\* no "{" with a "}" after it
NoSpanCores ==
    { "{\"suggestion\": \"Open the file.\"",
      "\"suggestion\": \"Open the file.\"}",
      "}{",
      "" }

ExtractionCores ==
    SuggestionCores \cup NoSuggestionCores \cup MalformedCores \cup NoSpanCores

Prefixes == {"", "Sure! Here is the first step:\n~~~json\n"}
Suffixes == {"", "\n~~~\nGood luck!"}

ExtractionResponses ==
    { prefix \o core \o suffix :
        prefix \in Prefixes, core \in ExtractionCores, suffix \in Suffixes }

wrap(text) == "{\"suggestion\": \"" \o text \o "\"}"

CandidateResponses == { wrap(text) : text \in OrderTexts }

PipelineResponses == ExtractionResponses \cup CandidateResponses

\* what parseAndStoreSuggestion makes of each response
Outcomes ==
    { <<responseText, parseAndValidate(responseText)>> :
        responseText \in Responses \cup PipelineResponses }
outcomeOf(responseText) == (CHOOSE o \in Outcomes : o[1] = responseText)[2]

LLMErrors == { Error("fetch failed") }

\* failures of the model call: network, authentication, quota
InvocationErrors ==
    { Error("fetch failed"),
      Error("API key not valid. Please pass a valid API key."),
      Error("Resource has been exhausted (e.g. check quota).") }

(***************************************************************************)
(* State.                                                                  *)
(*   currentTasks, suggestions  the two Maps of the class, keyed by user   *)
(*                 id: functions whose domain is the set of keys present   *)
(*   pending       per call slot, the generateFirstStep call suspended at  *)
(*                 `await llm.executeLLM(prompt)`, if any                  *)
(*   ret           the last operation: its name ("resume" for the part of  *)
(*                 generateFirstStep after its await), its arguments, how  *)
(*                 it ended ("returned", "threw" or "suspended"), the      *)
(*                 value it returned (for setCurrentTask/clearCurrentTask, *)
(*                 the result of suggestions.delete) and the error thrown  *)
(***************************************************************************)
VARIABLES currentTasks, suggestions, pending, ret

vars == <<currentTasks, suggestions, pending, ret>>

undefined == [undefined |-> TRUE]
EmptyMap == [k \in {} |-> undefined]

\* Map.prototype.has, get, set, delete
MapHas(m, k) == k \in DOMAIN m
MapGet(m, k) == IF k \in DOMAIN m THEN m[k] ELSE undefined
MapSet(m, k, v) == [x \in DOMAIN m \cup {k} |-> IF x = k THEN v ELSE m[x]]
MapDelete(m, k) == [x \in DOMAIN m \ {k} |-> m[x]]

Idle == [status |-> "idle"]
Awaiting(user, currentTask) ==
    [status |-> "awaiting", user |-> user,
     currentTask |-> currentTask, prompt |-> createFirstStepPrompt(currentTask)]

Ret(op, user, task, outcome, value, error) ==
    [op |-> op, user |-> user, task |-> task, outcome |-> outcome,
     value |-> value, error |-> error]

Init ==
    /\ currentTasks = EmptyMap
    /\ suggestions = EmptyMap
    /\ pending = [c \in Calls |-> Idle]
    /\ ret = Ret("new", "", undefined, "returned", undefined, NoError)

setCurrentTask_KeepsSuggestion(user, task) ==
    /\ currentTasks' = MapSet(currentTasks, user, task)
    /\ ret' = Ret("setCurrentTask", user, task, "returned",
                  [deleted |-> MapHas(suggestions, user)], NoError)
    /\ UNCHANGED <<suggestions, pending>>

setCurrentTask_KeepsExistingTask(user, task) ==
    /\ currentTasks' = IF MapHas(currentTasks, user) THEN currentTasks
                       ELSE MapSet(currentTasks, user, task)
    /\ suggestions' = MapDelete(suggestions, user)
    /\ ret' = Ret("setCurrentTask", user, task, "returned",
                  [deleted |-> MapHas(suggestions, user)], NoError)
    /\ UNCHANGED pending

setCurrentTask(user, task) ==
    /\ currentTasks' = MapSet(currentTasks, user, task)
    /\ suggestions' = MapDelete(suggestions, user)
    /\ ret' = Ret("setCurrentTask", user, task, "returned",
                  [deleted |-> MapHas(suggestions, user)], NoError)
    /\ UNCHANGED pending

clearCurrentTask_KeepsTask(user) ==
    /\ suggestions' = MapDelete(suggestions, user)
    /\ ret' = Ret("clearCurrentTask", user, undefined, "returned",
                  [deleted |-> MapHas(suggestions, user)], NoError)
    /\ UNCHANGED <<currentTasks, pending>>

clearCurrentTask_ClearsAllSuggestions(user) ==
    /\ currentTasks' = MapDelete(currentTasks, user)
    /\ suggestions' = EmptyMap
    /\ ret' = Ret("clearCurrentTask", user, undefined, "returned",
                  [deleted |-> MapHas(suggestions, user)], NoError)
    /\ UNCHANGED pending

clearCurrentTask(user) ==
    /\ currentTasks' = MapDelete(currentTasks, user)
    /\ suggestions' = MapDelete(suggestions, user)
    /\ ret' = Ret("clearCurrentTask", user, undefined, "returned",
                  [deleted |-> MapHas(suggestions, user)], NoError)
    /\ UNCHANGED pending

getCurrentTask(user) ==
    /\ ret' = Ret("getCurrentTask", user, undefined, "returned",
                  MapGet(currentTasks, user), NoError)
    /\ UNCHANGED <<currentTasks, suggestions, pending>>

(***************************************************************************)
(* generateFirstStep up to its await, in call slot c.  `task` is the task  *)
(* the caller wants a first step for, the argument of the documented       *)
(* action generateFirstStep(user, task); the method has the parameters     *)
(* (user, llm) and so never sees it.  A call takes the first free slot.    *)
(***************************************************************************)
generateFirstStep_NoPrecondition(c, user, task) ==
    LET currentTask == IF MapHas(currentTasks, user) THEN currentTasks[user]
                       ELSE [description |-> "undefined"]
    IN  /\ pending[c] = Idle
        /\ \A d \in 1..(c - 1) : pending[d] # Idle
        /\ pending' = [pending EXCEPT ![c] = Awaiting(user, currentTask)]
        /\ ret' = Ret("generateFirstStep", user, task, "suspended", undefined, NoError)
        /\ UNCHANGED <<currentTasks, suggestions>>

generateFirstStep(c, user, task) ==
    LET currentTask == MapGet(currentTasks, user)
    IN  /\ pending[c] = Idle
        /\ \A d \in 1..(c - 1) : pending[d] # Idle
        /\ IF currentTask = undefined
           THEN /\ ret' = Ret("generateFirstStep", user, task, "threw", undefined,
                              NoCurrentTaskError(user))
                /\ UNCHANGED pending
           ELSE /\ pending' = [pending EXCEPT ![c] = Awaiting(user, currentTask)]
                /\ ret' = Ret("generateFirstStep", user, task, "suspended", undefined,
                              NoError)
        /\ UNCHANGED <<currentTasks, suggestions>>

(***************************************************************************)
(* The model call of slot c resolves with text: the rest of                *)
(* generateFirstStep, which is parseAndStoreSuggestion.                    *)
(***************************************************************************)
storeSuggestion_KeepsExisting(user, forTask, suggestionText) ==
    IF MapHas(suggestions, user) THEN suggestions
    ELSE MapSet(suggestions, user,
                [forTask |-> forTask, suggestionText |-> suggestionText])

\* the suggestions after `this.suggestions.set(user.id, suggestion)`
storeSuggestion(user, forTask, suggestionText) ==
    MapSet(suggestions, user, [forTask |-> forTask, suggestionText |-> suggestionText])

suggestionsAfter_DeletesOnFailure(call, result) ==
    IF result.threw THEN MapDelete(suggestions, call.user)
    ELSE storeSuggestion(call.user, call.currentTask, result.suggestionText)

suggestionsAfter_StoresPending(call, result) ==
    IF result.threw THEN storeSuggestion(call.user, call.currentTask, "")
    ELSE storeSuggestion(call.user, call.currentTask, result.suggestionText)

\* the suggestions after parseAndStoreSuggestion: nothing is stored when the
\* try block throws
suggestionsAfter(call, result) ==
    IF result.threw THEN suggestions
    ELSE storeSuggestion(call.user, call.currentTask, result.suggestionText)

parseAndStoreSuggestion_ForCurrentTask(c, responseText) ==
    LET call == pending[c]
        result == outcomeOf(responseText)
    IN  /\ call.status = "awaiting"
        /\ pending' = [pending EXCEPT ![c] = Idle]
        /\ suggestions' =
               IF result.threw THEN suggestions
               ELSE storeSuggestion(call.user, MapGet(currentTasks, call.user),
                                    result.suggestionText)
        /\ ret' = Ret("resume", call.user, undefined,
                      IF result.threw THEN "threw" ELSE "returned",
                      undefined, result.error)
        /\ UNCHANGED currentTasks

parseAndStoreSuggestion_RejectsRepeat(c, responseText) ==
    LET call == pending[c]
        parsed == outcomeOf(responseText)
        result == IF /\ ~parsed.threw
                     /\ MapHas(suggestions, call.user)
                     /\ suggestions[call.user].suggestionText = parsed.suggestionText
                  THEN Thrown(Error("Suggestion is already stored."))
                  ELSE parsed
    IN  /\ call.status = "awaiting"
        /\ pending' = [pending EXCEPT ![c] = Idle]
        /\ suggestions' = suggestionsAfter(call, result)
        /\ ret' = Ret("resume", call.user, undefined,
                      IF result.threw THEN "threw" ELSE "returned",
                      undefined, result.error)
        /\ UNCHANGED currentTasks

parseAndStoreSuggestion(c, responseText) ==
    LET call == pending[c]
        result == outcomeOf(responseText)
    IN  /\ call.status = "awaiting"
        /\ pending' = [pending EXCEPT ![c] = Idle]
        /\ suggestions' = suggestionsAfter(call, result)
        /\ ret' = Ret("resume", call.user, undefined,
                      IF result.threw THEN "threw" ELSE "returned",
                      undefined, result.error)
        /\ UNCHANGED currentTasks

llmReject_LeavesPending(c, error) ==
    LET call == pending[c]
    IN  /\ call.status = "awaiting"
        /\ ret' = Ret("resume", call.user, undefined, "threw", undefined,
                      error)
        /\ UNCHANGED <<currentTasks, suggestions, pending>>

llmReject_DeletesSuggestion(c, error) ==
    LET call == pending[c]
    IN  /\ call.status = "awaiting"
        /\ pending' = [pending EXCEPT ![c] = Idle]
        /\ suggestions' = MapDelete(suggestions, call.user)
        /\ ret' = Ret("resume", call.user, undefined, "threw", undefined,
                      error)
        /\ UNCHANGED currentTasks

llmReject_Swallows(c, error) ==
    LET call == pending[c]
    IN  /\ call.status = "awaiting"
        /\ pending' = [pending EXCEPT ![c] = Idle]
        /\ ret' = Ret("resume", call.user, undefined, "returned", undefined,
                      NoError)
        /\ UNCHANGED <<currentTasks, suggestions>>

\* the model call of slot c rejects with error: the catch block rethrows it
llmReject(c, error) ==
    LET call == pending[c]
    IN  /\ call.status = "awaiting"
        /\ pending' = [pending EXCEPT ![c] = Idle]
        /\ ret' = Ret("resume", call.user, undefined, "threw", undefined,
                      error)
        /\ UNCHANGED <<currentTasks, suggestions>>

Next ==
    \/ \E user \in Users, task \in Tasks : setCurrentTask(user, task)
    \/ \E user \in Users : clearCurrentTask(user)
    \/ \E user \in Users : getCurrentTask(user)
    \/ \E c \in Calls, user \in Users, task \in Tasks : generateFirstStep(c, user, task)
    \/ \E c \in Calls, responseText \in Responses : parseAndStoreSuggestion(c, responseText)
    \/ \E c \in Calls, error \in LLMErrors : llmReject(c, error)

Spec == Init /\ [][Next]_vars

(***************************************************************************)
(* The same program with the model call of every suspended                 *)
(* generateFirstStep eventually settling: the promise of llm.executeLLM    *)
(* resolves or rejects, and the event loop then runs the continuation.     *)
(* The resumption of slot c stays enabled until it is taken, so weak       *)
(* fairness is enough.  The model answers with one accepted and one        *)
(* rejected response, or fails.                                            *)
(***************************************************************************)
LiveResponses ==
    { "{\"suggestion\": \"List three main tasks you need to accomplish this week.\"}",
      "I cannot help with that." }

Resume(c) ==
    \/ \E responseText \in LiveResponses : parseAndStoreSuggestion(c, responseText)
    \/ \E error \in LLMErrors : llmReject(c, error)

Fairness == \A c \in Calls : WF_vars(Resume(c))

NextLive ==
    \/ \E user \in Users, task \in Tasks : setCurrentTask(user, task)
    \/ \E user \in Users : clearCurrentTask(user)
    \/ \E user \in Users : getCurrentTask(user)
    \/ \E c \in Calls, user \in Users, task \in Tasks : generateFirstStep(c, user, task)
    \/ \E c \in Calls : Resume(c)

SpecLive == Init /\ [][NextLive]_vars /\ Fairness

(***************************************************************************)
(* The validators applied to a text on their own: `text` is the argument,  *)
(* the outcome is "returned" or "threw" with the error thrown.             *)
(***************************************************************************)
RetText(op, text, outcome, error) ==
    [op |-> op, user |-> "", task |-> undefined, outcome |-> outcome,
     value |-> undefined, error |-> error, text |-> text]

applyValidateIsActionable(text) ==
    /\ ret' = IF validateIsActionable(text)
              THEN RetText("validateIsActionable", text, "returned", NoError)
              ELSE RetText("validateIsActionable", text, "threw",
                           NotActionableError(text))
    /\ UNCHANGED <<currentTasks, suggestions, pending>>

applyValidateIsShort(text) ==
    /\ ret' = IF validateIsShort(text)
              THEN RetText("validateIsShort", text, "returned", NoError)
              ELSE RetText("validateIsShort", text, "threw", TooLargeError(text))
    /\ UNCHANGED <<currentTasks, suggestions, pending>>

applyValidateIsSingleSentence(text) ==
    /\ ret' = IF validateIsSingleSentence(text)
              THEN RetText("validateIsSingleSentence", text, "returned", NoError)
              ELSE RetText("validateIsSingleSentence", text, "threw",
                           NotSingleSentenceError(text))
    /\ UNCHANGED <<currentTasks, suggestions, pending>>

NextValidators ==
    \/ \E text \in Candidates : applyValidateIsActionable(text)
    \/ \E text \in Candidates : applyValidateIsShort(text)
    \/ \E text \in Candidates : applyValidateIsSingleSentence(text)

SpecValidators == Init /\ [][NextValidators]_vars

(***************************************************************************)
(* One user's calls of generateFirstStep, one at a time, over the wide     *)
(* set of responses and of model-call failures.                            *)
(***************************************************************************)
PipelineUser == "user123"

NextPipeline ==
    \/ \E task \in Tasks : setCurrentTask(PipelineUser, task)
    \/ \E task \in Tasks : generateFirstStep(1, PipelineUser, task)
    \/ \E responseText \in PipelineResponses : parseAndStoreSuggestion(1, responseText)
    \/ \E error \in InvocationErrors : llmReject(1, error)

SpecPipeline == Init /\ [][NextPipeline]_vars

(***************************************************************************)
(* The properties of the specification's text, stated on strings directly: *)
(* what the stored suggestion text is required to satisfy.                 *)
(***************************************************************************)
\* the trimmed text is not empty
NonEmpty(text) == \E i \in 1..Len(text) : At(text, i) \notin TrimSpace

\* phrase occurs in text at position i, letter case ignored
OccursAt(text, i, phrase) ==
    \A k \in 1..Len(phrase) : LowerChar(At(text, i + k - 1)) = At(phrase, k)

\* the first token of the trimmed text starts with a listed verb
Actionable(text) ==
    \E i \in 1..Len(text), verb \in ACTION_VERBS :
        /\ \A j \in 1..(i - 1) : At(text, j) \in TrimSpace
        /\ At(text, i) \notin TrimSpace
        /\ OccursAt(text, i, verb)
        /\ \A k \in 0..(Len(verb) - 1) : At(text, i + k) # " "

\* no red-flag phrase occurs in the text
BoundedScope(text) ==
    \A i \in 1..Len(text), phrase \in RED_FLAG_PHRASES : ~OccursAt(text, i, phrase)

\* only white space follows a sentence terminator
SingleSentence(text) ==
    \A i \in 1..Len(text), j \in 1..Len(text) :
        (i < j /\ At(text, i) \in {".", "?", "!"}) => At(text, j) \in TrimSpace

PassesAllValidators(text) ==
    NonEmpty(text) /\ Actionable(text) /\ BoundedScope(text) /\ SingleSentence(text)

\* the suggestion string of the JSON object in a response that has one
HasSuggestion(responseText) ==
    /\ jsonMatch(responseText) # ""
    /\ JSON_parse(jsonMatch(responseText)).ok
    /\ hasStringProperty(JSON_parse(jsonMatch(responseText)).val, "suggestion")
SuggestionOf(responseText) ==
    getStringProperty(JSON_parse(jsonMatch(responseText)).val, "suggestion")
\* the responses whose suggestion passes all validators, each with it
GoodResponses ==
    {<<r, SuggestionOf(r)>> :
        r \in {q \in Responses : HasSuggestion(q) /\ PassesAllValidators(SuggestionOf(q))}}

\* the suggestion strings the model's responses hold, and the valid ones
SuggestionTexts == {SuggestionOf(r) : r \in {q \in Responses : HasSuggestion(q)}}
ValidTexts == {text \in SuggestionTexts : PassesAllValidators(text)}

\* the last step was the call of generateFirstStep, or its resumption
Called == ret.op = "generateFirstStep"
Resumed == ret.op = "resume"

(***************************************************************************)
(* C1: in every reachable state, a user who has a stored suggestion has a  *)
(* current task, and it is the suggestion's forTask.                       *)
(* Violated: a task change or clear while generateFirstStep is suspended   *)
(* is followed by the store of a suggestion for the task captured before.  *)
(***************************************************************************)
C1_SuggestionIsForCurrentTask ==
    \A u \in Users :
        MapHas(suggestions, u) =>
            /\ MapHas(currentTasks, u)
            /\ currentTasks[u] = suggestions[u].forTask

(***************************************************************************)
(* C2: in every reachable state, every stored suggestionText passes all    *)
(* validators: non-empty after trimming, actionable, no red-flag           *)
(* substring, only white space after its first sentence terminator.        *)
(***************************************************************************)
C2_StoredSuggestionsAreValid ==
    \A u \in DOMAIN suggestions : suggestions[u].suggestionText \in ValidTexts

C2_Witness ==
    \E u \in DOMAIN suggestions :
        /\ suggestions[u].suggestionText = "Write one sentence."
        /\ Resumed /\ ret.user = u /\ ret.outcome = "returned"

(***************************************************************************)
(* C3: a step in which generateFirstStep fails (at its call: no current    *)
(* task; at its resumption: model error, extraction or validation failure) *)
(* leaves the user's suggestion and current task as they were.             *)
(***************************************************************************)
C3_FailureLeavesStateUntouched ==
    [][ ((Called \/ Resumed)' /\ ret'.outcome = "threw") =>
            /\ MapGet(suggestions', ret'.user) = MapGet(suggestions, ret'.user)
            /\ MapGet(currentTasks', ret'.user) = MapGet(currentTasks, ret'.user) ]_vars

C3_Witness ==
    /\ Resumed /\ ret.outcome = "threw"
    /\ ret.error = NotActionableError("Think about what you want to accomplish.")
    /\ MapHas(suggestions, ret.user)
    /\ MapHas(currentTasks, ret.user)

(***************************************************************************)
(* C4: a call captures the user's current task T; when the model's         *)
(* response holds a suggestion string s that passes all validators, the    *)
(* call returns and the suggestion stored for the user is exactly          *)
(* {forTask: T, suggestionText: s}, whatever was stored before.            *)
(***************************************************************************)
C4_SuccessStoresSuggestion ==
    [][ /\ (Called' /\ MapHas(currentTasks, ret'.user)) =>
               \E c \in Calls :
                   /\ pending[c] = Idle
                   /\ pending'[c].status = "awaiting"
                   /\ pending'[c].user = ret'.user
                   /\ pending'[c].currentTask = currentTasks[ret'.user]
        /\ Resumed' =>
               \A c \in Calls, good \in GoodResponses :
                   parseAndStoreSuggestion(c, good[1]) =>
                       /\ ret'.outcome = "returned"
                       /\ MapGet(suggestions', pending[c].user) =
                              [forTask |-> pending[c].currentTask,
                               suggestionText |-> good[2]] ]_vars

C4_Witness ==
    /\ Resumed /\ ret.outcome = "returned"
    /\ MapGet(currentTasks, ret.user) = [description |-> "Get organized for the week"]
    /\ MapGet(suggestions, ret.user) =
           [forTask |-> [description |-> "Get organized for the week"],
            suggestionText |-> "List three main tasks you need to accomplish this week."]

(***************************************************************************)
(* C5: right after setCurrentTask(u, T') or clearCurrentTask(u) for a user *)
(* u who had a suggestion, no suggestion is stored for u.                  *)
(***************************************************************************)
C5_TaskChangeRemovesSuggestion ==
    [][ (ret'.op \in {"setCurrentTask", "clearCurrentTask"}
         /\ MapHas(suggestions, ret'.user)) => ~MapHas(suggestions', ret'.user) ]_vars

\* setCurrentTask removed a suggestion
C5_Witness ==
    /\ ret.op = "setCurrentTask"
    /\ ret.value.deleted
    /\ ~MapHas(suggestions, ret.user)

(***************************************************************************)
(* C6: generateFirstStep for a user without a current task throws the      *)
(* "no current task" error, invokes no model call and changes no stored    *)
(* task or suggestion.                                                     *)
(***************************************************************************)
C6_NoCurrentTaskIsRejected ==
    [][ (Called' /\ ~MapHas(currentTasks, ret'.user)) =>
            /\ ret'.outcome = "threw"
            /\ ret'.error = NoCurrentTaskError(ret'.user)
            /\ pending' = pending
            /\ currentTasks' = currentTasks
            /\ suggestions' = suggestions ]_vars

C6_Witness ==
    /\ Called /\ ret.outcome = "threw"
    /\ ~MapHas(currentTasks, ret.user)
    /\ \A c \in Calls : pending[c].status = "awaiting" => pending[c].user # ret.user

(***************************************************************************)
(* C7: generateFirstStep(user, task) with a task that differs from the     *)
(* user's current task throws a "task mismatch" error and stores nothing.  *)
(* Violated: the method takes no task and goes on to the model call.       *)
(***************************************************************************)
C7_TaskMismatchIsRejected ==
    (Called /\ MapHas(currentTasks, ret.user) /\ ret.task # MapGet(currentTasks, ret.user))
        => ret.outcome = "threw"

(***************************************************************************)
(* C8: getCurrentTask(u) right after setCurrentTask(u, T) returns T.       *)
(***************************************************************************)
C8_GetAfterSet ==
    \A u \in Users, T \in Tasks :
        (ret.op = "setCurrentTask" /\ ret.user = u /\ ret.task = T) =>
            /\ ENABLED getCurrentTask(u)
            /\ ~ENABLED (getCurrentTask(u) /\ ret'.value # T)

\* a set that replaced another task and removed a suggestion
C8_Witness ==
    /\ ret.op = "setCurrentTask" /\ ret.value.deleted
    /\ \E c \in Calls : /\ pending[c].status = "awaiting"
                       /\ pending[c].user = ret.user
                       /\ pending[c].currentTask # ret.task
    /\ ENABLED (getCurrentTask(ret.user) /\ ret'.value = ret.task)

(***************************************************************************)
(* C9: clearCurrentTask(u) can always be done and never throws, and        *)
(* getCurrentTask(u) right after it returns undefined.                     *)
(***************************************************************************)
C9_GetAfterClear ==
    \A u \in Users :
        /\ ENABLED clearCurrentTask(u)
        /\ (ret.op = "clearCurrentTask" /\ ret.user = u) =>
               /\ ret.outcome = "returned"
               /\ ENABLED getCurrentTask(u)
               /\ ~ENABLED (getCurrentTask(u) /\ ret'.value # undefined)

\* a clear for a user who had no current task
C9_Witness ==
    /\ ret.op = "clearCurrentTask"
    /\ \A u \in Users : ~MapHas(currentTasks, u)
    /\ \A c \in Calls : pending[c] = Idle
    /\ ENABLED (getCurrentTask(ret.user) /\ ret'.value = undefined)

(***************************************************************************)
(* C10: no step of generateFirstStep changes the current tasks; its call   *)
(* and a failing resumption change no suggestion; a returning resumption   *)
(* changes the suggestions by one write, for the call's user, of a text    *)
(* that passes all validators.                                             *)
(***************************************************************************)
C10_OnlyMutationIsTheFinalWrite ==
    [][ (Called \/ Resumed)' =>
            /\ currentTasks' = currentTasks
            /\ \/ suggestions' = suggestions
               \/ /\ Resumed' /\ ret'.outcome = "returned"
                  /\ MapHas(suggestions', ret'.user)
                  /\ suggestions'[ret'.user].suggestionText \in ValidTexts
                  /\ suggestions' = MapSet(suggestions, ret'.user, suggestions'[ret'.user])
        ]_vars

\* a call is suspended while a suggestion of an earlier call is stored
C10_Witness ==
    /\ Called /\ ret.outcome = "suspended"
    /\ MapHas(suggestions, ret.user)
    /\ \E c \in Calls : pending[c].status = "awaiting" /\ pending[c].user = ret.user

(***************************************************************************)
(* C11: an operation for user u (setCurrentTask, clearCurrentTask,         *)
(* getCurrentTask, the call of generateFirstStep or its resumption, with   *)
(* any outcome) leaves the current task and the suggestion of every other  *)
(* user as they were, also when calls of several users are suspended.      *)
(***************************************************************************)
C11_UsersAreIndependent ==
    [][ \A v \in Users \ {ret'.user} :
            /\ MapGet(currentTasks', v) = MapGet(currentTasks, v)
            /\ MapGet(suggestions', v) = MapGet(suggestions, v) ]_vars

\* a call of one user returned while a call of another user, who has a task
\* and a suggestion, is suspended
C11_Witness ==
    /\ Resumed /\ ret.outcome = "returned"
    /\ \E c \in Calls, v \in Users \ {ret.user} :
          /\ pending[c].status = "awaiting" /\ pending[c].user = v
          /\ MapHas(suggestions, v)
          /\ MapHas(currentTasks, v)

(***************************************************************************)
(* The validator an error names, by the sentence of its message; the       *)
(* sentence of the non-empty check is the one of validateNotEmpty in       *)
(* src/focus.spec.  The first validator a text fails, in the order         *)
(* Non-empty, Actionable, Bounded scope, Single sentence.                  *)
(***************************************************************************)
ReportedValidator(error) ==
    IF startsWith(error.message, "Validation Error: Suggestion is empty")
    THEN "Non-empty"
    ELSE IF startsWith(error.message,
                       "Validation Error: Suggestion is not an actionable command.")
    THEN "Actionable"
    ELSE IF startsWith(error.message,
                       "Validation Error: Suggestion implies too large a scope.")
    THEN "Bounded scope"
    ELSE IF startsWith(error.message,
                       "Validation Error: Suggestion must be a single sentence.")
    THEN "Single sentence"
    ELSE "none"

FirstFailing(text) ==
    IF ~NonEmpty(text) THEN "Non-empty"
    ELSE IF ~Actionable(text) THEN "Actionable"
    ELSE IF ~BoundedScope(text) THEN "Bounded scope"
    ELSE IF ~SingleSentence(text) THEN "Single sentence"
    ELSE "none"

(***************************************************************************)
(* C12: when the model answers with a JSON object whose suggestion is      *)
(* `text`, the error of the call names the first validator that text       *)
(* fails in the order Non-empty, Actionable, Bounded scope, Single         *)
(* sentence (and no validator when it fails none): an empty or             *)
(* white-space text is reported by the Non-empty check.                    *)
(* Violated: there is no non-empty check; the empty text is reported as    *)
(* not actionable.                                                         *)
(***************************************************************************)
C12_FirstFailingValidatorIsReported ==
    [][ \A text \in OrderTexts :
            parseAndStoreSuggestion(1, wrap(text))
                => ReportedValidator(ret'.error) = FirstFailing(text) ]_vars

(***************************************************************************)
(* The sentence by which a validator's error names it.                     *)
(***************************************************************************)
ValidatorSentence(op) ==
    CASE op = "validateIsActionable"
            -> "Validation Error: Suggestion is not an actionable command."
      [] op = "validateIsShort"
            -> "Validation Error: Suggestion implies too large a scope."
      [] op = "validateIsSingleSentence"
            -> "Validation Error: Suggestion must be a single sentence."

Validators == {"validateIsActionable", "validateIsShort", "validateIsSingleSentence"}

(***************************************************************************)
(* C13: a validator that rejects a text throws an error whose message is   *)
(* the sentence of that validator, different from the sentences of the     *)
(* other validators, followed by the whole text as it was passed, letter   *)
(* case and surrounding white space included.                              *)
(***************************************************************************)
C13_ValidationErrorNamesValidatorAndText ==
    (ret.op \in Validators /\ ret.outcome = "threw") =>
        /\ ret.error.message =
               ValidatorSentence(ret.op) \o " Got: \"" \o ret.text \o "\""
        /\ \A other \in Validators \ {ret.op} :
               ValidatorSentence(other) # ValidatorSentence(ret.op)

\* validateIsShort, which tests a lower-cased copy, rejected a text with
\* capitals and leading white space
C13_Witness ==
    /\ ret.op = "validateIsShort" /\ ret.outcome = "threw"
    /\ ret.text # toLowerCase(ret.text)
    /\ ret.text # trim(ret.text)
    /\ includes(ret.error.message, ret.text)

(***************************************************************************)
(* The kind of failure a caller reads from an error alone, by its          *)
(* constructor name and its message.                                       *)
(***************************************************************************)
KindOf(error) ==
    IF startsWith(error.message, "Cannot generate first step for user ")
    THEN "precondition"
    ELSE IF startsWith(error.message, "Validation Error: ")
    THEN "validation"
    ELSE IF \/ error.name = "SyntaxError"
            \/ startsWith(error.message, "No valid JSON object found")
            \/ startsWith(error.message, "Invalid response format: ")
    THEN "extraction"
    ELSE "model-invocation"

\* the responses without a candidate: no span, a span that is not JSON, an
\* object without a string suggestion
FailingExtractionResponses ==
    { prefix \o core \o suffix :
        prefix \in Prefixes, suffix \in Suffixes,
        core \in NoSpanCores \cup MalformedCores \cup NoSuggestionCores }

\* the responses with a candidate
CandidateBearingResponses ==
    CandidateResponses \cup
    { prefix \o core \o suffix :
        prefix \in Prefixes, suffix \in Suffixes, core \in SuggestionCores }

(***************************************************************************)
(* C14: the kind read from the error a failed call throws is the kind of   *)
(* the failure: precondition for a call without a current task,            *)
(* model-invocation for a rejected model call, extraction for a response   *)
(* without a span, with a span that is not JSON or with an object without  *)
(* a string suggestion, validation for a rejected candidate.  So errors    *)
(* of two different kinds are never equal.                                 *)
(***************************************************************************)
C14_ErrorKindsAreDistinguishable ==
    [][ ret'.outcome = "threw" =>
          /\ Called' => KindOf(ret'.error) = "precondition"
          /\ \A error \in InvocationErrors :
                 llmReject(1, error) => KindOf(ret'.error) = "model-invocation"
          /\ \A responseText \in FailingExtractionResponses :
                 parseAndStoreSuggestion(1, responseText)
                     => KindOf(ret'.error) = "extraction"
          /\ \A responseText \in CandidateBearingResponses :
                 parseAndStoreSuggestion(1, responseText)
                     => KindOf(ret'.error) = "validation" ]_vars

\* a call failed on an object without a string suggestion
C14_Witness ==
    /\ Resumed /\ ret.outcome = "threw"
    /\ ret.error = InvalidFormatError
    /\ KindOf(ret.error) = "extraction"

\* the errors the validators throw for a text
ValidationErrorsOf(text) ==
    { NotActionableError(text), TooLargeError(text), NotSingleSentenceError(text) }

(***************************************************************************)
(* C15: a failure inside generateFirstStep ends the call with that very    *)
(* error, name and message unchanged, and never with a normal return: the  *)
(* error the model call rejected with, one of the three extraction errors  *)
(* for a response without a candidate, an error of a validator with the    *)
(* candidate for a candidate that is not valid.                            *)
(***************************************************************************)
C15_FailuresAreRethrownUnchanged ==
    [][ /\ \A error \in InvocationErrors :
               llmReject(1, error)
                   => ret'.outcome = "threw" /\ ret'.error = error
        /\ \A responseText \in FailingExtractionResponses :
               parseAndStoreSuggestion(1, responseText)
                   => /\ ret'.outcome = "threw"
                      /\ ret'.error \in {NoJsonError, SyntaxError, InvalidFormatError}
        /\ \A text \in OrderTexts :
               (parseAndStoreSuggestion(1, wrap(text)) /\ ~PassesAllValidators(text))
                   => /\ ret'.outcome = "threw"
                      /\ ret'.error \in ValidationErrorsOf(text) ]_vars

\* a call ended with the authentication error of the model call
C15_Witness ==
    /\ Resumed /\ ret.outcome = "threw"
    /\ ret.error = Error("API key not valid. Please pass a valid API key.")
    /\ pending[1] = Idle

\* the suggestion string each object of SuggestionCores holds
ExpectedCandidate(core) ==
    IF core = "{\"suggestion\": \"Open the \\\"file\\\" {now}.\"}"
    THEN "Open the \"file\" {now}."
    ELSE "Open the file."

(***************************************************************************)
(* C16: for a response made of a core between prose or fences that hold    *)
(* no brace, the extraction fails, and stores nothing, exactly when the    *)
(* core has no "{" with a "}" after it (no span), when its span from the   *)
(* first "{" to the last "}" is not JSON, or when the object has no string *)
(* suggestion; otherwise the candidate is the object's suggestion string,  *)
(* whatever the prefix and the suffix are.                                 *)
(***************************************************************************)
C16_ExtractionTakesTheBraceSpan ==
    [][ \A prefix \in Prefixes, suffix \in Suffixes, core \in ExtractionCores :
            parseAndStoreSuggestion(1, prefix \o core \o suffix) =>
                /\ core \in NoSpanCores =>
                       ret'.error = NoJsonError /\ suggestions' = suggestions
                /\ core \in MalformedCores =>
                       ret'.error = SyntaxError /\ suggestions' = suggestions
                /\ core \in NoSuggestionCores =>
                       ret'.error = InvalidFormatError /\ suggestions' = suggestions
                /\ core \in SuggestionCores =>
                       /\ ret'.outcome = "returned"
                       /\ MapGet(suggestions', ret'.user).suggestionText
                              = ExpectedCandidate(core) ]_vars

\* the suggestion of an object with braces and escaped quotes inside its
\* string was stored
C16_Witness ==
    /\ Resumed /\ ret.outcome = "returned"
    /\ MapHas(suggestions, ret.user)
    /\ suggestions[ret.user].suggestionText = "Open the \"file\" {now}."

(***************************************************************************)
(* C17: when the extraction fails (no span, a span that is not JSON, no    *)
(* string suggestion), the error the call throws carries the model's       *)
(* response text: its message contains the response.                       *)
(* Violated: the errors are `new Error` with a fixed message and the       *)
(* SyntaxError of JSON.parse; the response text is only written to the     *)
(* console.                                                                *)
(***************************************************************************)
C17_ExtractionErrorCarriesResponse ==
    [][ \A responseText \in FailingExtractionResponses :
            parseAndStoreSuggestion(1, responseText)
                => includes(ret'.error.message, responseText) ]_vars

(***************************************************************************)
(* The first token of a text: from its first character that is not white   *)
(* space up to the next white space.  A token has a listed verb as prefix  *)
(* when its first characters are, letter case ignored, those of the verb.  *)
(***************************************************************************)
FirstToken(text) ==
    LET black == {i \in 1..Len(text) : At(text, i) \notin TrimSpace}
    IN  IF black = {} THEN ""
        ELSE LET lo == CHOOSE i \in black : \A j \in black : i <= j
                 white == {i \in lo..Len(text) : At(text, i) \in TrimSpace}
                 hi == IF white = {} THEN Len(text)
                       ELSE (CHOOSE i \in white : \A j \in white : i <= j) - 1
             IN  SubSeq(text, lo, hi)

HasVerbPrefix(token) ==
    \E verb \in ACTION_VERBS :
        /\ Len(verb) <= Len(token)
        /\ \A k \in 1..Len(verb) : LowerChar(At(token, k)) = At(verb, k)

(***************************************************************************)
(* C18: validateIsActionable accepts a text exactly when the first         *)
(* white-space-delimited token of the trimmed text has, letter case        *)
(* ignored, an entry of the verb list as a prefix.  "Open the document."   *)
(* is accepted; "Think about your options." and "You should write an       *)
(* outline." are rejected.                                                 *)
(***************************************************************************)
C18_ActionableIffFirstTokenHasVerbPrefix ==
    ret.op = "validateIsActionable" =>
        /\ (ret.outcome = "returned") <=> HasVerbPrefix(FirstToken(ret.text))
        /\ ret.text = "Open the document." => ret.outcome = "returned"
        /\ ret.text \in {"Think about your options.", "You should write an outline."}
               => ret.outcome = "threw"

\* accepted: a token in capitals that is longer than its verb, after white
\* space and before a tab
C18_Witness ==
    /\ ret.op = "validateIsActionable" /\ ret.outcome = "returned"
    /\ ret.text = " \tOpening\tthe document."

(***************************************************************************)
(* C19: validateIsActionable accepts every text that begins, after         *)
(* leading white space and letter case ignored, with an entry of the verb  *)
(* list, the entries of two words ("look up", "set up", "take out",        *)
(* "go to") included: "Set up your desk." is accepted.                     *)
(* Violated: the first word is cut at the first space, so no entry of two  *)
(* words is ever a prefix of it.                                           *)
(***************************************************************************)
C19_TextBeginningWithListedVerbIsActionable ==
    ( /\ ret.op = "validateIsActionable"
      /\ \E verb \in ACTION_VERBS : startsWith(toLowerCase(trim(ret.text)), verb) )
        => ret.outcome = "returned"

\* some character that is not white space follows the earliest terminator
TextAfterFirstTerminator(text) ==
    \E i \in 1..Len(text) :
        /\ At(text, i) \in {".", "?", "!"}
        /\ \A j \in 1..(i - 1) : At(text, j) \notin {".", "?", "!"}
        /\ \E k \in (i + 1)..Len(text) : At(text, k) \notin TrimSpace

(***************************************************************************)
(* C20: validateIsSingleSentence rejects a text exactly when a character   *)
(* that is not white space occurs after the earliest of its ".", "?" and   *)
(* "!"; a text without any of them is accepted.                            *)
(***************************************************************************)
C20_SingleSentenceIffNothingAfterFirstTerminator ==
    ret.op = "validateIsSingleSentence" =>
        /\ (ret.outcome = "threw") <=> TextAfterFirstTerminator(ret.text)
        /\ (\A i \in 1..Len(ret.text) : At(ret.text, i) \notin {".", "?", "!"})
               => ret.outcome = "returned"

\* rejected for the terminator that follows the earliest one
C20_Witness ==
    /\ ret.op = "validateIsSingleSentence" /\ ret.outcome = "threw"
    /\ ret.text = "Open a document?!"

\* a red-flag phrase occurs in the text, letter case ignored, at any
\* position, inside a word or not
ContainsRedFlag(text) ==
    \E phrase \in RED_FLAG_PHRASES, i \in 1..Len(text) : OccursAt(text, i, phrase)

(***************************************************************************)
(* C21: validateIsShort rejects a text exactly when a phrase of the        *)
(* red-flag list occurs in it as a substring, letter case ignored and      *)
(* without regard to word boundaries.  "Finish the entire module." is      *)
(* rejected and "List three tasks for this week." is accepted.             *)
(***************************************************************************)
C21_BoundedScopeIffNoRedFlagSubstring ==
    ret.op = "validateIsShort" =>
        /\ (ret.outcome = "threw") <=> ContainsRedFlag(ret.text)
        /\ ret.text = "Finish the entire module." => ret.outcome = "threw"
        /\ ret.text = "List three tasks for this week." => ret.outcome = "returned"

\* rejected for a phrase in capitals that starts inside a longer word
C21_Witness ==
    /\ ret.op = "validateIsShort" /\ ret.outcome = "threw"
    /\ ret.text = "Recall OF THE week's tasks."

\* the extraction and the validators applied to each response on its own
PipelineAlone == [responseText \in Responses |-> parseAndValidate(responseText)]

C23_ForTaskIsCapturedAtCallStart ==
    [][ /\ (Called' /\ ret'.outcome = "suspended") =>
               \E c \in Calls :
                   /\ pending[c] = Idle
                   /\ pending'[c].status = "awaiting"
                   /\ pending'[c].user = ret'.user
                   /\ pending'[c].currentTask = MapGet(currentTasks, ret'.user)
        /\ \A c \in Calls :
               (pending[c].status = "awaiting" /\ pending'[c].status = "awaiting")
                   => pending'[c].currentTask = pending[c].currentTask
        /\ (Resumed' /\ ret'.outcome = "returned") =>
               \E c \in Calls :
                   /\ pending[c].status = "awaiting"
                   /\ pending'[c] = Idle
                   /\ pending[c].user = ret'.user
                   /\ MapGet(suggestions', ret'.user).forTask
                          = pending[c].currentTask ]_vars

\* a suggestion was stored for the task captured at the call, after the
\* user's current task had been changed to another one
C23_Witness ==
    /\ Resumed /\ ret.outcome = "returned"
    /\ MapHas(currentTasks, ret.user)
    /\ MapHas(suggestions, ret.user)
    /\ suggestions[ret.user].forTask # currentTasks[ret.user]
    /\ \A c \in Calls : pending[c] = Idle

\* the responses that are not accepted
BadResponses == Responses \ {g[1] : g \in GoodResponses}

(***************************************************************************)
(* C24: when a call of generateFirstStep resumes for a user who already    *)
(* has a stored suggestion (as the later of two overlapping calls of that  *)
(* user does after the earlier one has stored its suggestion), a           *)
(* successful resumption replaces the stored suggestion with its own, the  *)
(* accepted text for the task it captured, and a failing one (rejected     *)
(* model call, extraction or validation error) leaves the stored           *)
(* suggestion as it is.  So after both calls the stored suggestion is      *)
(* that of the successful call processed last.                             *)
(***************************************************************************)
C24_LastWriteWins ==
    [][ Resumed' =>
          \A c \in Calls :
              (pending[c].status = "awaiting" /\ MapHas(suggestions, pending[c].user)) =>
                  LET user == pending[c].user
                  IN  /\ \A g \in GoodResponses :
                             parseAndStoreSuggestion(c, g[1]) =>
                                 suggestions'[user] =
                                     [forTask |-> pending[c].currentTask,
                                      suggestionText |-> g[2]]
                      /\ \A responseText \in BadResponses :
                             parseAndStoreSuggestion(c, responseText) =>
                                 /\ MapHas(suggestions', user)
                                 /\ suggestions'[user] = suggestions[user]
                      /\ \A error \in LLMErrors :
                             llmReject(c, error) =>
                                 /\ MapHas(suggestions', user)
                                 /\ suggestions'[user] = suggestions[user] ]_vars

\* of two overlapping calls of one user, one has stored its suggestion and
\* the other is still suspended on the model call
C24_Witness ==
    /\ Resumed /\ ret.outcome = "returned"
    /\ MapHas(suggestions, ret.user)
    /\ \E c \in Calls :
          /\ pending[c].status = "awaiting"
          /\ pending[c].user = ret.user
          /\ pending[c].currentTask = suggestions[ret.user].forTask

(***************************************************************************)
(* C25: with every model call eventually settling, a call of               *)
(* generateFirstStep that is suspended on its model call is eventually     *)
(* completed.  The step that completes it is its resumption and has        *)
(* exactly one of two outcomes: it returns and a suggestion for the        *)
(* captured task is stored for the user, or it throws an error and stores  *)
(* nothing.  Until then the call stays suspended, and in every state with  *)
(* a suspended call, setCurrentTask, clearCurrentTask and getCurrentTask   *)
(* of every user can run.                                                  *)
(***************************************************************************)
C25_SuspendedCallCompletesOnce ==
    /\ \A c \in Calls : (pending[c].status = "awaiting") ~> (pending[c] = Idle)
    /\ [][ \A c \in Calls :
               (pending[c].status = "awaiting" /\ pending'[c] # pending[c]) =>
                   /\ Resumed' /\ pending'[c] = Idle
                   /\ ret'.user = pending[c].user
                   /\ \/ /\ ret'.outcome = "returned" /\ ret'.error = NoError
                         /\ MapHas(suggestions', ret'.user)
                         /\ suggestions'[ret'.user].forTask = pending[c].currentTask
                      \/ /\ ret'.outcome = "threw" /\ ret'.error # NoError
                         /\ suggestions' = suggestions ]_vars
    /\ [](\A c \in Calls :
              pending[c].status = "awaiting" =>
                  \A user \in Users :
                      /\ \A task \in Tasks : ENABLED setCurrentTask(user, task)
                      /\ ENABLED clearCurrentTask(user)
                      /\ ENABLED getCurrentTask(user))

\* a call that was suspended has completed with an error, nothing stored,
\* while another call is still suspended
C25_Witness ==
    /\ Resumed /\ ret.outcome = "threw"
    /\ MapHas(currentTasks, ret.user)
    /\ ~MapHas(suggestions, ret.user)
    /\ pending[1] = Idle
    /\ \E c \in Calls : pending[c].status = "awaiting"

====
